---------------------------- MODULE Spec2Model ----------------------------
(***************************************************************************)
(* VTextField (packages/vuetify/src/components/VTextField/VTextField.tsx). *)
(*                                                                         *)
(* The component's setup() state and handlers as a state machine: the      *)
(* proxied model, the focus controller, the native <input> element (value  *)
(* and selection), the nextTick queue of deferred continuations and the    *)
(* v-intersect subscription.                                               *)
(***************************************************************************)
EXTENDS Integers, Sequences, FiniteSets, TLC

(***************************************************************************)
(* Bounds of the model.                                                    *)
(***************************************************************************)
\* longest text the user can put into the element in the general model
MaxLen == 3
\* most continuations waiting in the nextTick queue at once
MaxQueue == 1
\* most visibility reports delivered to the v-intersect observer
MaxReports == 3

(***************************************************************************)
(* JavaScript values.  Every value is a record of the same shape so that   *)
(* values of different JavaScript types can be compared: t is the typeof   *)
(* tag (with null and NaN kept apart), s the characters of a string (or    *)
(* the name of a function), n the number (or 1/0 for true/false).          *)
(***************************************************************************)
Undefined == [t |-> "undefined", s |-> <<>>, n |-> 0]
Null == [t |-> "null", s |-> <<>>, n |-> 0]
NaN == [t |-> "NaN", s |-> <<>>, n |-> 0]
Throws == [t |-> "throws", s |-> <<>>, n |-> 0]
Str(s) == [t |-> "string", s |-> s, n |-> 0]
Num(n) == [t |-> "number", s |-> <<>>, n |-> n]
Bool(b) == [t |-> "boolean", s |-> <<>>, n |-> IF b THEN 1 ELSE 0]
Fn(name) == [t |-> "function", s |-> <<name>>, n |-> 0]

\* JavaScript truthiness, as used by `if (x)`, `!x` and `a || b`
Truthy(v) ==
  CASE v.t \in {"undefined", "null", "NaN"} -> FALSE
    [] v.t = "boolean" -> v.n = 1
    [] v.t = "number" -> v.n # 0
    [] v.t = "string" -> Len(v.s) > 0
    [] OTHER -> TRUE

\* the nullish test of `a ?? b`
Nullish(v) == v.t \in {"undefined", "null"}

Min(a, b) == IF a <= b THEN a ELSE b

\* x occurs in the sequence
Has(seq, x) == \E i \in 1..Len(seq) : seq[i] = x

\* how often x occurs in the sequence
Count(seq, x) == Cardinality({i \in 1..Len(seq) : seq[i] = x})

Digit(d) ==
  CASE d = 0 -> "0" [] d = 1 -> "1" [] d = 2 -> "2" [] d = 3 -> "3"
    [] d = 4 -> "4" [] d = 5 -> "5" [] d = 6 -> "6" [] d = 7 -> "7"
    [] d = 8 -> "8" [] OTHER -> "9"

RECURSIVE Digits(_)
\* the decimal digits of a natural number
Digits(k) == IF k < 10 THEN <<Digit(k)>> ELSE Digits(k \div 10) \o <<Digit(k % 10)>>

\* `(x).toString()` of a non-nullish primitive
toString(v) ==
  CASE v.t = "string" -> v.s
    [] v.t = "number" -> IF v.n < 0 THEN <<"-">> \o Digits(0 - v.n) ELSE Digits(v.n)
    [] v.t = "boolean" -> IF v.n = 1 THEN <<"t", "r", "u", "e">> ELSE <<"f", "a", "l", "s", "e">>
    [] v.t = "NaN" -> <<"N", "a", "N">>
    [] OTHER -> <<>>

RECURSIVE TrimStart(_)
\* String.prototype.trimStart on a sequence of characters
TrimStart(s) == IF s # <<>> /\ Head(s) = " " THEN TrimStart(Tail(s)) ELSE s

RECURSIVE TrimEnd(_)
\* String.prototype.trimEnd
TrimEnd(s) == IF s # <<>> /\ s[Len(s)] = " " THEN TrimEnd(SubSeq(s, 1, Len(s) - 1)) ELSE s

\* String.prototype.trim
Trim(s) == TrimEnd(TrimStart(s))

\* the characters the user types in the general model
Alphabet == {" ", "a"}

(***************************************************************************)
(* Program constants.                                                      *)
(***************************************************************************)
\* activeTypes with 'datetime-local' misspelt
activeTypesMisspelt == {"color", "file", "time", "date", "datetime", "week", "month"}

\* line 26
activeTypes == {"color", "file", "time", "date", "datetime-local", "week", "month"}

\* line 144: the types whose caret is captured and restored under `trim`
trimTypes == {"text", "search", "password", "tel", "url"}

\* a v-intersect binding without modifiers
intersectModifiersNone == {}

\* the modifiers of the v-intersect binding on the <input>, line 217
intersectModifiers == {"once"}

\* the values of props.type the model ranges over
EntryTypes ==
  {"text", "search", "password", "tel", "url", "email", "number",
   "color", "file", "time", "date", "datetime-local", "week", "month"}

VARIABLES
  props,          \* the component's props (read only)
  attrs,          \* the fall-through attributes (read only)
  model,          \* model.value of useProxiedModel(props, 'modelValue')
  isFocused,      \* isFocused.value of useFocus(props)
  el,             \* the native <input>: value, selectionStart, selectionEnd
  inputRef,       \* inputRef.value: "input" once the <input> is mounted, else "undefined"
  activeElement,  \* TRUE iff document.activeElement is the <input>
  queue,          \* callbacks handed to nextTick and not yet run, oldest first
  observing,      \* TRUE while the v-intersect observer is subscribed
  focusRequests,  \* number of times onIntersect called target.focus()
  vcounter,       \* the props last rendered into <VCounter>, or NoCounter
  step,           \* the handler that ran last, with the caret pair it restored,
                  \* the flag it was called with, the target of its event and
                  \* whether it wrote to the model the value the model held
  trace           \* the observable effects of the handler that ran last, in order

vars == <<props, attrs, model, isFocused, el, inputRef, activeElement, queue,
          observing, focusRequests, vcounter, step, trace>>

NoCounter == [shown |-> FALSE, value |-> Undefined, max |-> Undefined]

Op(name) ==
  [op |-> name, caret |-> <<0, 0>>, isIntersecting |-> FALSE, target |-> "input",
   equalWrite |-> FALSE]

(***************************************************************************)
(* Computed values of setup().                                             *)
(***************************************************************************)
\* a custom counting function applied to a value.
\*   double:    v => v.length * 2
\*   remaining: v => 1 - v.length
Apply(f, v) ==
  CASE Nullish(v) -> Throws
    [] v.t # "string" -> NaN
    [] f.s = <<"double">> -> Num(Len(v.s) * 2)
    [] OTHER -> Num(1 - Len(v.s))

\* counterValue that ignores the custom counting function
counterValueOfLengthOnly(p, m) ==
  Num(Len(toString(IF Nullish(m) THEN Str(<<>>) ELSE m)))

\* counterValue without the `?? ''` of line 74: .toString() of null throws
counterValueOfNoNullish(p, m) ==
  IF p.counterValue.t = "function" THEN Apply(p.counterValue, m)
  ELSE IF Nullish(m) THEN Throws
  ELSE Num(Len(toString(m)))

\* lines 71-75
counterValueOf(p, m) ==
  IF p.counterValue.t = "function"
    THEN Apply(p.counterValue, m)
    ELSE Num(Len(toString(IF Nullish(m) THEN Str(<<>>) ELSE m)))

counterValue == counterValueOf(props, model)

\* max that lets the counter prop take precedence over the maxlength attribute
maxOfCounterFirst(p, a) ==
  IF Truthy(p.counter) /\ p.counter.t \in {"number", "string"} THEN p.counter
  ELSE IF Truthy(a.maxlength) THEN a.maxlength
  ELSE Undefined

\* lines 76-86
maxOf(p, a) ==
  IF Truthy(a.maxlength) THEN a.maxlength
  ELSE IF ~Truthy(p.counter) \/ (p.counter.t # "number" /\ p.counter.t # "string")
    THEN Undefined
    ELSE p.counter

max == maxOf(props, attrs)

\* isActive that forgets the explicit `active` prop
isActiveOfNoOverride(p, focused) ==
  \/ p.type \in activeTypes
  \/ p.persistentPlaceholder
  \/ focused

\* isActive that also counts a field holding text as active
isActiveOfDirty(p, focused) ==
  \/ p.type \in activeTypes
  \/ p.persistentPlaceholder
  \/ focused
  \/ p.active
  \/ Truthy(model)

\* lines 102-107
isActiveOf(p, focused) ==
  \/ p.type \in activeTypes
  \/ p.persistentPlaceholder
  \/ focused
  \/ p.active

isActive == isActiveOf(props, isFocused)

(***************************************************************************)
(* The focus controller and the element's focus.                           *)
(***************************************************************************)
\* useFocus: focus() sets isFocused.value = true and notifies the owner
focus == [isFocused |-> TRUE, trace |-> <<"update:focused(true)">>]

\* useFocus: blur() sets isFocused.value = false and notifies the owner
blur == [isFocused |-> FALSE, trace |-> <<"update:focused(false)">>]

\* lines 108-114, entered with document.activeElement already the <input> (as
\* from its native focus event, line 225): only the second `if` can act
onFocusOfActive(focused) ==
  IF ~focused THEN focus ELSE [isFocused |-> focused, trace |-> <<>>]

\* HTMLElement.focus() on the <input>: a no-op when it is the activeElement,
\* else it becomes the activeElement and its focus event runs onFocus
inputFocus(active, focused) ==
  IF active
    THEN [activeElement |-> TRUE, isFocused |-> focused, trace |-> <<>>]
    ELSE [activeElement |-> TRUE,
          isFocused |-> onFocusOfActive(focused).isFocused,
          trace |-> <<"focusin">> \o onFocusOfActive(focused).trace]

\* onFocus that does nothing
onFocusNothing(active, focused) ==
  [activeElement |-> active, isFocused |-> focused, trace |-> <<>>]

\* onFocus without the isFocused test of line 112
onFocusAlways(active, focused) ==
  LET a == IF ~active /\ inputRef = "input" THEN inputFocus(active, focused)
           ELSE [activeElement |-> active, isFocused |-> focused, trace |-> <<>>]
  IN [activeElement |-> a.activeElement,
      isFocused |-> focus.isFocused,
      trace |-> a.trace \o focus.trace]

\* onFocus without the focus() call of line 113
onFocusElementOnly(active, focused) ==
  IF ~active /\ inputRef = "input" THEN inputFocus(active, focused)
  ELSE [activeElement |-> active, isFocused |-> focused, trace |-> <<>>]

\* lines 108-114: onFocus() called from a handler of the component
onFocus(active, focused) ==
  LET a == IF ~active /\ inputRef = "input" THEN inputFocus(active, focused)
           ELSE [activeElement |-> active, isFocused |-> focused, trace |-> <<>>]
      b == IF ~a.isFocused THEN focus ELSE [isFocused |-> a.isFocused, trace |-> <<>>]
  IN [activeElement |-> a.activeElement,
      isFocused |-> b.isFocused,
      trace |-> a.trace \o b.trace]

(***************************************************************************)
(* The native <input> element.                                             *)
(***************************************************************************)
\* HTML "set the selection range": both ends are clamped to the length of
\* the value, and a start beyond the end collapses onto the end
SetSelectionRange(e, start, end) ==
  LET n == Len(e.value)
      en == Min(end, n)
      st == Min(Min(start, n), en)
  IN [e EXCEPT !.selectionStart = st, !.selectionEnd = en]

\* line 148: the selectionStart setter
SetSelectionStart(e, v) ==
  SetSelectionRange(e, v, IF e.selectionEnd < v THEN v ELSE e.selectionEnd)

\* line 149: the selectionEnd setter
SetSelectionEnd(e, v) == SetSelectionRange(e, e.selectionStart, v)

\* line 213, `value={ model.value }`: the text the renderer puts in the element
display(m) == IF Nullish(m) THEN <<>> ELSE toString(m)

\* the value setter of the element: a different value moves the caret to the end
SetValue(e, s) ==
  IF e.value = s THEN e
  ELSE [value |-> s, selectionStart |-> Len(s), selectionEnd |-> Len(s)]

(***************************************************************************)
(* Rendering.                                                              *)
(***************************************************************************)
\* the owner's formatting of the value it was notified of: with the trim
\* modifier it keeps the trimmed text
formatted(p, m) ==
  IF p.modelModifiers.trim /\ m.t = "string" THEN Str(Trim(m.s)) ELSE m

\* line 155
hasCounter(p) == Truthy(p.counter) \/ Truthy(p.counterValue)

\* lines 265-276: the props given to <VCounter>
renderCounter(p, a, m) ==
  IF hasCounter(p)
    THEN [shown |-> TRUE, value |-> counterValueOf(p, m), max |-> maxOf(p, a)]
    ELSE NoCounter

\* the element after the pending update has been flushed
flushedEl == SetValue(el, display(formatted(props, model)))

\* lines 154-282: the scheduler flushes the pending update
\* an update is pending: the owner or the DOM does not show the state yet
dirty ==
  \/ model # formatted(props, model)
  \/ el # flushedEl
  \/ vcounter # renderCounter(props, attrs, formatted(props, model))

Render ==
  /\ dirty
  /\ model' = formatted(props, model)
  /\ el' = flushedEl
  /\ vcounter' = renderCounter(props, attrs, formatted(props, model))
  /\ step' = Op("render")
  /\ trace' = <<>>
  /\ UNCHANGED <<props, attrs, inputRef, isFocused, activeElement, queue, observing, focusRequests>>

(***************************************************************************)
(* The proxied model and the nextTick queue.                               *)
(***************************************************************************)
\* useProxiedModel: `model.value = v` stores v and notifies the owner
write(v) == [model |-> v, trace |-> <<"update:modelValue">>]

\* the callback queued by onClear, lines 133-137
clearCallback == [kind |-> "clear", caret |-> <<0, 0>>]

\* the callback queued by onInput, lines 147-150, closing over caretPosition
caretCallback(caretPosition) == [kind |-> "caret", caret |-> caretPosition]

\* callEvent(props['onClick:clear'], e), line 136
callEvent(handler) == IF handler THEN <<"onClick:clear">> ELSE <<>>

(***************************************************************************)
(* Handlers.                                                               *)
(***************************************************************************)
\* the user moves focus into the <input>; its focus event runs onFocus (line 225)
NativeFocus ==
  /\ ~activeElement
  /\ activeElement' = TRUE
  /\ isFocused' = onFocusOfActive(isFocused).isFocused
  /\ trace' = onFocusOfActive(isFocused).trace
  /\ step' = Op("onFocus")
  /\ UNCHANGED <<props, attrs, inputRef, model, el, queue, observing, focusRequests, vcounter>>

\* the user moves focus away; the blur event runs blur (line 226)
NativeBlur ==
  /\ activeElement
  /\ activeElement' = FALSE
  /\ isFocused' = blur.isFocused
  /\ trace' = blur.trace
  /\ step' = Op("blur")
  /\ UNCHANGED <<props, attrs, inputRef, model, el, queue, observing, focusRequests, vcounter>>

\* onControlMousedown without the early return of line 118
onControlMousedownNoReturn(target) ==
  /\ activeElement' = onFocus(activeElement, isFocused).activeElement
  /\ isFocused' = onFocus(activeElement, isFocused).isFocused
  /\ trace' = <<"mousedown:control">>
                \o onFocus(activeElement, isFocused).trace
                \o <<"preventDefault">>
  /\ step' = [Op("onControlMousedown") EXCEPT !.target = target]
  /\ UNCHANGED <<props, attrs, inputRef, model, el, queue, observing, focusRequests, vcounter>>

\* lines 115-122
onControlMousedown(target) ==
  /\ IF target = "input"
       THEN /\ trace' = <<"mousedown:control">>
            /\ UNCHANGED <<activeElement, isFocused>>
       ELSE /\ activeElement' = onFocus(activeElement, isFocused).activeElement
            /\ isFocused' = onFocus(activeElement, isFocused).isFocused
            /\ trace' = <<"mousedown:control">>
                          \o onFocus(activeElement, isFocused).trace
                          \o <<"preventDefault">>
  /\ step' = [Op("onControlMousedown") EXCEPT !.target = target]
  /\ UNCHANGED <<props, attrs, inputRef, model, el, queue, observing, focusRequests, vcounter>>

\* lines 123-127
onControlClick ==
  /\ activeElement' = onFocus(activeElement, isFocused).activeElement
  /\ isFocused' = onFocus(activeElement, isFocused).isFocused
  /\ trace' = onFocus(activeElement, isFocused).trace \o <<"click:control">>
  /\ step' = Op("onControlClick")
  /\ UNCHANGED <<props, attrs, inputRef, model, el, queue, observing, focusRequests, vcounter>>

\* onClear that clears the model at once instead of on the next tick
onClearSynchronous ==
  /\ activeElement' = onFocus(activeElement, isFocused).activeElement
  /\ isFocused' = onFocus(activeElement, isFocused).isFocused
  /\ model' = write(Null).model
  /\ trace' = <<"stopPropagation">> \o onFocus(activeElement, isFocused).trace
                \o write(Null).trace \o callEvent(props.onClickClear)
  /\ step' = Op("onClear")
  /\ UNCHANGED <<props, attrs, inputRef, el, queue, observing, focusRequests, vcounter>>

\* lines 128-138
onClear ==
  /\ Len(queue) < MaxQueue
  /\ activeElement' = onFocus(activeElement, isFocused).activeElement
  /\ isFocused' = onFocus(activeElement, isFocused).isFocused
  /\ queue' = Append(queue, clearCallback)
  /\ trace' = <<"stopPropagation">> \o onFocus(activeElement, isFocused).trace
                \o <<"nextTick">>
  /\ step' = Op("onClear")
  /\ UNCHANGED <<props, attrs, inputRef, model, el, observing, focusRequests, vcounter>>

\* capturesCaret without the type test of line 144
capturesCaretAnyType(p) == p.modelModifiers.trim

\* whether onInput captures the caret, lines 142-145
capturesCaret(p) == p.modelModifiers.trim /\ p.type \in trimTypes

\* onInput writing the trimmed text
inputValueTrimmed(e) == Str(Trim(e.value))

\* the value onInput writes to the model, line 141
inputValue(e) == Str(e.value)

\* lines 139-152, on the input event of an edit that left the element with
\* the text `text` and the selection start..end
onInput(text, start, end) ==
  LET e == [value |-> text, selectionStart |-> start, selectionEnd |-> end]
  IN /\ activeElement
     /\ capturesCaret(props) => Len(queue) < MaxQueue
     /\ el' = e
     /\ model' = write(inputValue(e)).model
     /\ queue' = IF capturesCaret(props)
                   THEN Append(queue, caretCallback(<<e.selectionStart, e.selectionEnd>>))
                   ELSE queue
     /\ trace' = write(inputValue(e)).trace
                   \o (IF capturesCaret(props) THEN <<"nextTick">> ELSE <<>>)
     /\ step' = [Op("onInput") EXCEPT !.equalWrite = (model = inputValue(e))]
     /\ UNCHANGED <<props, attrs, inputRef, isFocused, activeElement, observing, focusRequests, vcounter>>

\* the callback of onClear calling the clear callback before the model write
ClearTickCallbackFirst ==
  /\ queue # <<>>
  /\ Head(queue).kind = "clear"
  /\ queue' = Tail(queue)
  /\ el' = flushedEl
  /\ vcounter' = renderCounter(props, attrs, formatted(props, model))
  /\ model' = write(Null).model
  /\ trace' = callEvent(props.onClickClear) \o write(Null).trace
  /\ step' = [Op("clearTick") EXCEPT !.equalWrite = (model = Null)]
  /\ UNCHANGED <<props, attrs, inputRef, isFocused, activeElement, observing, focusRequests>>

\* the callback of onClear writing the empty string instead of null
ClearTickEmptyString ==
  /\ queue # <<>>
  /\ Head(queue).kind = "clear"
  /\ queue' = Tail(queue)
  /\ el' = flushedEl
  /\ vcounter' = renderCounter(props, attrs, formatted(props, model))
  /\ model' = write(Str(<<>>)).model
  /\ trace' = write(Str(<<>>)).trace \o callEvent(props.onClickClear)
  /\ step' = [Op("clearTick") EXCEPT !.equalWrite = (model = Null)]
  /\ UNCHANGED <<props, attrs, inputRef, isFocused, activeElement, observing, focusRequests>>

\* lines 133-137, run by the scheduler after it has flushed the pending update
ClearTick ==
  /\ queue # <<>>
  /\ Head(queue).kind = "clear"
  /\ queue' = Tail(queue)
  /\ el' = flushedEl
  /\ vcounter' = renderCounter(props, attrs, formatted(props, model))
  /\ model' = write(Null).model
  /\ trace' = write(Null).trace \o callEvent(props.onClickClear)
  /\ step' = [Op("clearTick") EXCEPT !.equalWrite = (model = Null)]
  /\ UNCHANGED <<props, attrs, inputRef, isFocused, activeElement, observing, focusRequests>>

\* the callback of onInput without the two assignments
CaretTickNoRestore ==
  /\ queue # <<>>
  /\ Head(queue).kind = "caret"
  /\ queue' = Tail(queue)
  /\ el' = flushedEl
  /\ vcounter' = renderCounter(props, attrs, formatted(props, model))
  /\ model' = formatted(props, model)
  /\ trace' = <<>>
  /\ step' = [Op("caretTick") EXCEPT !.caret = Head(queue).caret]
  /\ UNCHANGED <<props, attrs, inputRef, isFocused, activeElement, observing, focusRequests>>

\* lines 147-150, run by the scheduler after it has flushed the pending update
CaretTick ==
  /\ queue # <<>>
  /\ Head(queue).kind = "caret"
  /\ queue' = Tail(queue)
  /\ el' = SetSelectionEnd(SetSelectionStart(flushedEl, Head(queue).caret[1]),
                           Head(queue).caret[2])
  /\ vcounter' = renderCounter(props, attrs, formatted(props, model))
  /\ model' = formatted(props, model)
  /\ trace' = <<>>
  /\ step' = [Op("caretTick") EXCEPT !.caret = Head(queue).caret]
  /\ UNCHANGED <<props, attrs, inputRef, isFocused, activeElement, observing, focusRequests>>

\* onIntersect without the isIntersecting test of line 94
onIntersectIgnoresFlag(isIntersecting, entries) ==
  IF ~props.autofocus
    THEN [called |-> FALSE, activeElement |-> activeElement, isFocused |-> isFocused,
          trace |-> <<>>]
    ELSE [called |-> TRUE,
          activeElement |-> inputFocus(activeElement, isFocused).activeElement,
          isFocused |-> inputFocus(activeElement, isFocused).isFocused,
          trace |-> <<"target.focus()">> \o inputFocus(activeElement, isFocused).trace]

\* onIntersect without the props.autofocus test of line 94
onIntersectIgnoresAutofocus(isIntersecting, entries) ==
  IF ~isIntersecting
    THEN [called |-> FALSE, activeElement |-> activeElement, isFocused |-> isFocused,
          trace |-> <<>>]
    ELSE [called |-> TRUE,
          activeElement |-> inputFocus(activeElement, isFocused).activeElement,
          isFocused |-> inputFocus(activeElement, isFocused).isFocused,
          trace |-> <<"target.focus()">> \o inputFocus(activeElement, isFocused).trace]

\* lines 90-97; `entries` is the shape of the list the observer passes:
\*   "input":   its first entry's target is the <input>
\*   "nofocus": its first entry's target has no focus method
\*   "empty":   it has no entry, so that entries[0].target throws
onIntersect(isIntersecting, entries) ==
  IF ~props.autofocus \/ ~isIntersecting
    THEN [called |-> FALSE, activeElement |-> activeElement, isFocused |-> isFocused,
          trace |-> <<>>]
  ELSE IF entries = "empty"
    THEN [called |-> FALSE, activeElement |-> activeElement, isFocused |-> isFocused,
          trace |-> <<"TypeError">>]
  ELSE IF entries = "nofocus"
    THEN [called |-> FALSE, activeElement |-> activeElement, isFocused |-> isFocused,
          trace |-> <<>>]
    ELSE [called |-> TRUE,
          activeElement |-> inputFocus(activeElement, isFocused).activeElement,
          isFocused |-> inputFocus(activeElement, isFocused).isFocused,
          trace |-> <<"target.focus()">> \o inputFocus(activeElement, isFocused).trace]

\* the v-intersect observer reports on the <input>, lines 215-217; with the
\* `once` modifier it unsubscribes after the first intersecting report, once
\* the handler has returned: a handler that throws leaves the subscription
Intersect(isIntersecting, entries) ==
  /\ observing
  /\ focusRequests < MaxReports
  /\ activeElement' = onIntersect(isIntersecting, entries).activeElement
  /\ isFocused' = onIntersect(isIntersecting, entries).isFocused
  /\ focusRequests' = focusRequests
                        + (IF onIntersect(isIntersecting, entries).called THEN 1 ELSE 0)
  /\ observing' = IF Has(onIntersect(isIntersecting, entries).trace, "TypeError")
                    THEN observing
                    ELSE ~(isIntersecting /\ "once" \in intersectModifiers)
  /\ trace' = onIntersect(isIntersecting, entries).trace
  /\ step' = [Op("onIntersect") EXCEPT !.isIntersecting = isIntersecting,
                                       !.target = entries]
  /\ UNCHANGED <<props, attrs, inputRef, model, el, queue, vcounter>>

(***************************************************************************)
(* The component under every type, with and without the trim modifier,     *)
(* autofocus and a clear listener.                                         *)
(***************************************************************************)
Props(type, autofocus, counter, cv, pp, active, trim, clear) ==
  [type |-> type, autofocus |-> autofocus, counter |-> counter, counterValue |-> cv,
   persistentPlaceholder |-> pp, active |-> active,
   modelModifiers |-> [trim |-> trim], onClickClear |-> clear]

InitState ==
  /\ model = Null
  /\ isFocused = FALSE
  /\ el = [value |-> <<>>, selectionStart |-> 0, selectionEnd |-> 0]
  /\ inputRef = "input"
  /\ activeElement = FALSE
  /\ queue = <<>>
  /\ observing = TRUE
  /\ focusRequests = 0
  /\ vcounter = NoCounter
  /\ step = Op("setup")
  /\ trace = <<>>

Init ==
  /\ \E type \in EntryTypes, autofocus, trim, clear \in BOOLEAN :
       props = Props(type, autofocus, Bool(FALSE), Undefined, FALSE, FALSE, trim, clear)
  /\ attrs = [maxlength |-> Undefined]
  /\ InitState

\* the text after the user types character c at position i
Inserted(text, i, c) == SubSeq(text, 1, i) \o <<c>> \o SubSeq(text, i + 1, Len(text))

\* the text after the user deletes the character before position i
Deleted(text, i) == SubSeq(text, 1, i - 1) \o SubSeq(text, i + 1, Len(text))

\* where an edit leaves the caret: the selection API applies to the types of
\* trimTypes only, the others report no selection (kept as 0; never read)
Caret(type, i) == IF type \in trimTypes THEN i ELSE 0

\* the user types one character into the focused element
Type ==
  \E i \in 0..Len(el.value), c \in Alphabet :
    /\ Len(el.value) < MaxLen
    /\ onInput(Inserted(el.value, i, c), Caret(props.type, i + 1), Caret(props.type, i + 1))

\* the user deletes one character of the focused element
Erase ==
  \E i \in 1..Len(el.value) :
    onInput(Deleted(el.value, i), Caret(props.type, i - 1), Caret(props.type, i - 1))

ControlMousedown == \E target \in {"input", "field"} : onControlMousedown(target)

\* the observer watches the <input> alone, so its reports carry its entry
IntersectReport == \E isIntersecting \in BOOLEAN : Intersect(isIntersecting, "input")

Next ==
  \/ NativeFocus
  \/ NativeBlur
  \/ ControlMousedown
  \/ onControlClick
  \/ onClear
  \/ Type
  \/ Erase
  \/ Render
  \/ ClearTick
  \/ CaretTick
  \/ IntersectReport

Spec == Init /\ [][Next]_vars

(***************************************************************************)
(* The active state under every type, persistentPlaceholder and `active`.  *)
(***************************************************************************)
InitActive ==
  /\ \E type \in EntryTypes, pp, active \in BOOLEAN :
       props = Props(type, TRUE, Bool(FALSE), Undefined, pp, active, TRUE, TRUE)
  /\ attrs = [maxlength |-> Undefined]
  /\ InitState

SpecActive == InitActive /\ [][Next]_vars

(***************************************************************************)
(* The counter: count and maximum under every model value, counter prop,   *)
(* counting function and maxlength attribute.                              *)
(***************************************************************************)
hello == <<"h", "e", "l", "l", "o">>

\* modelValue as the owner can pass it
ModelValues == {Null, Undefined, Str(<<>>), Str(hello), Str(<<" ", "a">>), Num(0), Num(42)}

\* props.counter after Vue's prop casting (absent and '' arrive as booleans)
CounterValues == {Bool(FALSE), Bool(TRUE), Num(0), Num(5), Num(10), Str(<<"5">>), Str(<<"0">>)}

\* props.counterValue: absent, a counting function, or a non-function
CounterValueValues == {Undefined, Fn("double"), Fn("remaining"), Num(7)}

\* attrs.maxlength: absent, bare (''), bound to a number, or given as text
MaxlengthValues == {Undefined, Str(<<>>), Num(0), Num(20), Str(<<"2", "0">>), Str(<<"0">>)}

InitCounter ==
  /\ \E counter \in CounterValues, cv \in CounterValueValues :
       props = Props("text", FALSE, counter, cv, FALSE, FALSE, FALSE, FALSE)
  /\ attrs \in [maxlength : MaxlengthValues]
  /\ model \in ModelValues
  /\ isFocused = FALSE
  /\ el = [value |-> <<>>, selectionStart |-> 0, selectionEnd |-> 0]
  /\ inputRef = "input"
  /\ activeElement = FALSE
  /\ queue = <<>>
  /\ observing = TRUE
  /\ focusRequests = 0
  /\ vcounter = NoCounter
  /\ step = Op("setup")
  /\ trace = <<>>

NextCounter == Render

SpecCounter == InitCounter /\ [][NextCounter]_vars

(***************************************************************************)
(* The component under input events that leave the text as it is (the user *)
(* replaces a selection by the same text), besides the edits of Next.      *)
(***************************************************************************)
InitRewrite ==
  /\ \E type \in {"text", "number"}, trim \in BOOLEAN, clear \in BOOLEAN :
       props = Props(type, FALSE, Bool(FALSE), Undefined, FALSE, FALSE, trim, clear)
  /\ attrs = [maxlength |-> Undefined]
  /\ InitState

Retype ==
  \E i \in 0..Len(el.value) :
    onInput(el.value, Caret(props.type, i), Caret(props.type, i))

NextRewrite == Retype \/ Next

SpecRewrite == InitRewrite /\ [][NextRewrite]_vars

(***************************************************************************)
(* The component under visibility reports of every shape: any flag, and a  *)
(* list of entries that is empty, or whose first target is the <input>, or *)
(* whose first target has no focus method.                                 *)
(***************************************************************************)
EntriesShapes == {"input", "nofocus", "empty"}

InitReports ==
  /\ \E type \in {"text", "number"}, autofocus \in BOOLEAN, trim \in BOOLEAN, clear \in BOOLEAN :
       props = Props(type, autofocus, Bool(FALSE), Undefined, FALSE, FALSE, trim, clear)
  /\ attrs = [maxlength |-> Undefined]
  /\ InitState

AnyReport ==
  \E isIntersecting \in BOOLEAN, entries \in EntriesShapes :
    Intersect(isIntersecting, entries)

NextReports == AnyReport \/ Next

SpecReports == InitReports /\ [][NextReports]_vars

(***************************************************************************)
(* The component while inputRef holds no element: the handlers of the      *)
(* field (mousedown, click, clear) run, the <input> raises no event.  The  *)
(* owner may have bound `focused` either way.                              *)
(***************************************************************************)
InitDetached ==
  /\ \E type \in EntryTypes, autofocus \in BOOLEAN, clear \in BOOLEAN :
       props = Props(type, autofocus, Bool(FALSE), Undefined, FALSE, FALSE, FALSE, clear)
  /\ attrs = [maxlength |-> Undefined]
  /\ model = Null
  /\ isFocused \in BOOLEAN
  /\ el = [value |-> <<>>, selectionStart |-> 0, selectionEnd |-> 0]
  /\ inputRef = "undefined"
  /\ activeElement = FALSE
  /\ queue = <<>>
  /\ observing = FALSE
  /\ focusRequests = 0
  /\ vcounter = NoCounter
  /\ step = Op("setup")
  /\ trace = <<>>

NextDetached ==
  \/ onControlMousedown("field")
  \/ onControlClick
  \/ onClear
  \/ ClearTick

SpecDetached == InitDetached /\ [][NextDetached]_vars

(***************************************************************************)
(* The password scenario: {type: 'password', counter: 10, modelModifiers:  *)
(* {trim: true}}; the user focuses the field, types "secret" one character *)
(* at a time and leaves the field.                                         *)
(***************************************************************************)
secret == <<"s", "e", "c", "r", "e", "t">>

InitPassword ==
  /\ props = Props("password", FALSE, Num(10), Undefined, FALSE, FALSE, TRUE, FALSE)
  /\ attrs = [maxlength |-> Undefined]
  /\ InitState

\* the user enters the empty field: by keyboard, or by a click on the field
\* (mousedown, then click)
PasswordFocus ==
  /\ el.value = <<>>
  /\ step.op \in {"setup", "onIntersect", "onControlMousedown"}
  /\ \/ NativeFocus
     \/ onControlMousedown("field")
     \/ onControlClick

\* the user types the next character of "secret" at the end of the text
PasswordType ==
  /\ Len(el.value) < Len(secret)
  /\ el.value = SubSeq(secret, 1, Len(el.value))
  /\ onInput(SubSeq(secret, 1, Len(el.value) + 1), Len(el.value) + 1, Len(el.value) + 1)

\* the user leaves the field once "secret" is typed
PasswordBlur ==
  /\ el.value = secret
  /\ NativeBlur

NextPassword ==
  \/ PasswordFocus
  \/ PasswordType
  \/ PasswordBlur
  \/ Render
  \/ CaretTick
  \/ IntersectReport

SpecPassword == InitPassword /\ [][NextPassword]_vars

\* the scenario is over: "secret" is typed, the field is left, no callback
\* is queued and no update is pending
PasswordDone ==
  /\ el.value = secret
  /\ ~activeElement
  /\ queue = <<>>
  /\ ~dirty

(***************************************************************************)
(* Properties.                                                             *)
(***************************************************************************)

\* C1: for every type in {color, file, time, date, datetime-local, week,
\* month}, isActive is true in every reachable state, whatever the focus,
\* persistentPlaceholder and the `active` prop are.
AlwaysActiveTypesAreActive ==
  props.type \in {"color", "file", "time", "date", "datetime-local", "week", "month"}
    => isActive

\* C1 witness: a picker type, unfocused after a blur, with no
\* persistentPlaceholder and no override, and text in the model
AlwaysActiveWitness ==
  /\ props.type = "datetime-local"
  /\ ~props.persistentPlaceholder /\ ~props.active /\ ~isFocused
  /\ step.op = "blur"
  /\ model.t = "string"
  /\ isActive

\* C2: for every other type, isActive is true iff persistentPlaceholder or
\* the focused state or the `active` prop is true, whatever the model value.
OtherTypesActiveIff ==
  props.type \notin {"color", "file", "time", "date", "datetime-local", "week", "month"}
    => (isActive <=> (props.persistentPlaceholder \/ isFocused \/ props.active))

\* C2 witness: a password field holding text, blurred, none of the three set
OtherTypesWitness ==
  /\ props.type = "password"
  /\ ~props.persistentPlaceholder /\ ~props.active /\ ~isFocused
  /\ step.op = "blur"
  /\ model.t = "string" /\ model.s # <<>>
  /\ ~isActive

\* the number of characters of the string form of a model value of ModelValues
ExpectedLength(m) ==
  CASE m.t \in {"null", "undefined"} -> 0
    [] m.t = "string" -> Len(m.s)
    [] m = Num(42) -> 2
    [] OTHER -> 1

\* C3: with a custom counting function the count is that function's result
\* (twice the length for v => v.length * 2); without one, or with a
\* non-function, it is the length of the string form of the model value, 0
\* for null and undefined. "hello" counts 5, and 10 under v => v.length * 2.
CounterValueResolved ==
  /\ props.counterValue.t # "function" => counterValue = Num(ExpectedLength(model))
  /\ (props.counterValue = Fn("double") /\ model.t = "string")
       => counterValue = Num(2 * Len(model.s))
  /\ (props.counterValue = Fn("remaining") /\ model.t = "string")
       => counterValue = Num(1 - Len(model.s))
  /\ (props.counterValue = Undefined /\ model = Str(hello)) => counterValue = Num(5)
  /\ (props.counterValue = Fn("double") /\ model = Str(hello)) => counterValue = Num(10)
  /\ (vcounter.shown /\ step.op = "render") => vcounter.value = counterValue

\* C3 witness: "hello" rendered under v => v.length * 2
CounterValueWitness ==
  /\ props.counterValue = Fn("double")
  /\ model = Str(hello)
  /\ step.op = "render"
  /\ vcounter.shown /\ vcounter.value = Num(10)

\* C4 as stated: the maximum is the maxlength attribute whenever it is
\* present (0 and '' included), else the counter prop whenever it is a number
\* or a string (0 included), else undefined.
MaxWheneverPresent ==
  IF attrs.maxlength # Undefined THEN max = attrs.maxlength
  ELSE IF props.counter.t \in {"number", "string"} THEN max = props.counter
  ELSE max = Undefined

\* C4 amended: the maximum is the maxlength attribute whenever it is present
\* and neither 0 nor ''; else the counter prop whenever it is a non-zero
\* number or a non-empty string; else undefined.
MaxWheneverTruthy ==
  /\ IF attrs.maxlength \notin {Undefined, Num(0), Str(<<>>)} THEN max = attrs.maxlength
     ELSE IF /\ props.counter.t \in {"number", "string"}
             /\ props.counter \notin {Num(0), Str(<<>>)}
       THEN max = props.counter
       ELSE max = Undefined
  /\ (attrs.maxlength = Str(<<"2", "0">>) /\ props.counter = Str(<<"5">>))
       => max = Str(<<"2", "0">>)
  /\ (vcounter.shown /\ step.op = "render") => vcounter.max = max

\* C4 witness: maxlength="20" and counter="5" rendered with the maximum "20"
MaxWitness ==
  /\ attrs.maxlength = Str(<<"2", "0">>)
  /\ props.counter = Str(<<"5">>)
  /\ step.op = "render"
  /\ vcounter.shown /\ vcounter.max = Str(<<"2", "0">>)

\* C5: with autofocus, target.focus() is called at most once: on the first
\* intersecting report, after which the observer is gone for good.
AutofocusFiresOnce ==
  props.autofocus =>
    /\ focusRequests <= 1
    /\ focusRequests = 1 <=> ~observing
    /\ (step.op = "onIntersect" /\ step.isIntersecting)
         => (focusRequests = 1 /\ trace # <<>> /\ Head(trace) = "target.focus()")
    /\ (step.op = "onIntersect" /\ ~step.isIntersecting) => trace = <<>>

\* C5 witness: autofocus has fired, the field was blurred since, and the
\* observer is no longer subscribed
AutofocusWitness ==
  /\ props.autofocus
  /\ focusRequests = 1
  /\ ~observing
  /\ step.op = "blur"

\* C6 as stated: after the continuation of an input event has run, the
\* selection is the pair captured by onInput.
CaretRestoredExactly ==
  step.op = "caretTick" =>
    /\ el.selectionStart = step.caret[1]
    /\ el.selectionEnd = step.caret[2]

\* C6 amended: after the continuation has run, each end of the selection is
\* the captured index, or the length of the element's value if that is less.
CaretRestoredClamped ==
  step.op = "caretTick" =>
    /\ capturesCaret(props)
    /\ el.selectionStart = Min(step.caret[1], Len(el.value))
    /\ el.selectionEnd = Min(step.caret[2], Len(el.value))

\* C6 witness: a space typed after "a" (caret captured at 2) has been trimmed
\* away by the owner, and the restored caret sits at the end of "a"
CaretWitness ==
  /\ step.op = "caretTick"
  /\ step.caret = <<2, 2>>
  /\ el.value = <<"a">>
  /\ el.selectionStart = 1 /\ el.selectionEnd = 1

\* C7: onClear leaves the model as it was and queues the clearing; the model
\* turns null only in the queued callback, and is null when that has run.
ClearIsDeferred ==
  [][/\ step'.op = "onClear" => (model' = model /\ queue' = Append(queue, clearCallback))
     /\ (model # Null /\ model' = Null) => step'.op = "clearTick"
     /\ step'.op = "clearTick" => (model' = Null /\ Head(queue) = clearCallback)]_vars

\* C7 witness: the callback has just cleared a model that held text (the
\* element still shows it)
ClearWitness ==
  /\ step.op = "clearTick"
  /\ model = Null
  /\ el.value # <<>>

\* C8: the field is focused when onClear returns, the queued callback does
\* not change the focused state, and it is focused after a callback that
\* runs right after onClear.
FocusKeptThroughClear ==
  [][/\ step'.op = "onClear" => (isFocused' /\ activeElement')
     /\ step'.op = "clearTick" => (isFocused' = isFocused /\ activeElement' = activeElement)
     /\ (step.op = "onClear" /\ step'.op = "clearTick") => isFocused']_vars

\* C8 witness: the clear button was clicked on an unfocused field, which is
\* focused after the callback has run
FocusKeptWitness ==
  /\ step.op = "clearTick"
  /\ isFocused /\ activeElement
  /\ model = Null

\* C10: after onInput the model is the element's text, character for
\* character, under every type and with or without the trim modifier.
InputWritesElementValue ==
  step.op = "onInput" => (model.t = "string" /\ model.s = el.value)

\* C10 witness: under trim, a space typed before "a" is in the model
InputWitness ==
  /\ step.op = "onInput"
  /\ props.modelModifiers.trim
  /\ model = Str(<<" ", "a">>)

\* C9: at the end of the password scenario the model is "secret", the
\* counter shows 6 of 10, and isActive is false.
PasswordScenario ==
  PasswordDone =>
    /\ model = Str(secret)
    /\ counterValue = Num(6) /\ max = Num(10)
    /\ vcounter = [shown |-> TRUE, value |-> Num(6), max |-> Num(10)]
    /\ ~isFocused
    /\ ~isActive

\* C9 witness: the end of the scenario, reached by a blur
PasswordWitness ==
  /\ PasswordDone
  /\ step.op = "blur"
  /\ model = Str(secret)
  /\ ~isActive


\* C11: a visibility report calls target.focus() exactly when autofocus is
\* set and the report is intersecting; every other report has no effect at
\* all, a non-intersecting report leaves the subscription in place, and an
\* armed trigger (autofocus set, nothing requested yet) stays subscribed, so
\* that a later intersecting report still reaches the handler and fires.
FocusRequestOnlyWhenArmedAndVisible ==
  /\ step.op = "onIntersect" =>
       /\ Has(trace, "target.focus()") <=> (props.autofocus /\ step.isIntersecting)
       /\ ~(props.autofocus /\ step.isIntersecting) => trace = <<>>
       /\ ~step.isIntersecting => observing
  /\ ~props.autofocus => focusRequests = 0
  /\ (props.autofocus /\ focusRequests = 0) => observing

\* an armed trigger has just received a non-intersecting report
FocusRequestWitness ==
  /\ props.autofocus
  /\ step.op = "onIntersect"
  /\ ~step.isIntersecting
  /\ observing
  /\ focusRequests = 0

\* C12 as stated: with autofocus false no visibility subscription for the
\* <input> is ever registered.
NeverSubscribesWithoutAutofocus == ~props.autofocus => ~observing

\* C12 as the code has it: the directive is bound whatever autofocus is, so
\* with autofocus false the subscription exists from setup until the first
\* intersecting report; what is inert is the handler: no report has an
\* effect and no focus request is ever issued.
InertWithoutAutofocus ==
  ~props.autofocus =>
    /\ focusRequests = 0
    /\ step.op = "setup" => observing
    /\ step.op = "onIntersect" => /\ trace = <<>>
                                  /\ observing <=> ~step.isIntersecting

\* autofocus is false and an intersecting report has been received and ignored
InertWitness ==
  /\ ~props.autofocus
  /\ step.op = "onIntersect"
  /\ step.isIntersecting
  /\ ~observing
  /\ ~isFocused
  /\ focusRequests = 0


\* C13 as stated: whatever the model value and the configuration, a custom
\* counting function included, a count that is produced is >= 0.
CountNeverNegative == counterValue.t = "number" => counterValue.n >= 0

\* C13 as the code has it: without a custom counting function the count is a
\* number >= 0 for every model value, null and undefined included; with one,
\* the count is whatever the function returns, which the widget does not
\* constrain: v => 1 - v.length counts below 0 for every text longer than
\* one character.
CountNonNegativeWithoutFunction ==
  /\ props.counterValue.t # "function"
       => counterValue.t = "number" /\ counterValue.n >= 0
  /\ (props.counterValue = Fn("remaining") /\ model.t = "string" /\ Len(model.s) > 1)
       => counterValue.t = "number" /\ counterValue.n < 0
  /\ (vcounter.shown /\ step.op = "render" /\ props.counterValue.t # "function")
       => vcounter.value.t = "number" /\ vcounter.value.n >= 0

\* a null model value counted without a counting function: the counter shows 0
CountWitness ==
  /\ props.counterValue = Num(7)
  /\ model = Null
  /\ step.op = "render"
  /\ vcounter.shown
  /\ vcounter.value = Num(0)


\* the handlers that call onFocus()
FocusOps == {"onControlMousedown", "onControlClick", "onClear"}

\* C14 as stated: onFocus run while the <input> is absent emits no
\* focus-state notification (and leaves the Focused State as it was).
FocusWithoutElementIsNoOp ==
  (inputRef = "undefined" /\ step.op \in FocusOps)
    => ~Has(trace, "update:focused(true)")

\* C14 as the code has it: while the <input> is absent onFocus skips the
\* element's focus() call without an error, so the element never becomes the
\* active element and no focus event is raised, but it still runs the focus
\* controller's focus(): the Focused State is true afterwards, and the
\* focus-state notification is emitted exactly when it was false before.
\* Nothing else of the widget's state is touched by onFocus.
FocusWithoutElementStillFocuses ==
  [][(inputRef = "undefined" /\ step'.op \in FocusOps) =>
       /\ isFocused'
       /\ ~activeElement'
       /\ ~Has(trace', "focusin")
       /\ Has(trace', "update:focused(true)") <=> ~isFocused
       /\ Count(trace', "update:focused(true)") <= 1
       /\ UNCHANGED <<model, el, inputRef, observing, focusRequests, vcounter>>]_vars

\* a click on the field while the <input> is absent has set the Focused State
FocusWithoutElementWitness ==
  /\ inputRef = "undefined"
  /\ step.op = "onControlClick"
  /\ trace = <<"update:focused(true)", "click:control">>
  /\ isFocused
  /\ ~activeElement


\* C15: no handler of the widget throws: whatever the visibility report
\* (any flag, any list of entries, the empty list included, any target),
\* the input, mousedown, click or clear event and the configuration, the
\* handler that ran last completed without raising an error.
NoHandlerThrows == ~Has(trace, "TypeError")


\* C16: when a handler writes to the model the value the model already
\* holds (an input event whose element value equals the model value, or the
\* clear continuation on a model that is already null), the model value is
\* unchanged and the handler emits no model notification beyond the one of
\* that synchronous write.
EqualWriteNotifiesOnce ==
  [][(\/ step'.op = "onInput" /\ model = Str(el'.value)
      \/ step'.op = "clearTick" /\ model = Null)
       => /\ step'.equalWrite
          /\ model' = model
          /\ Count(trace', "update:modelValue") <= 1]_vars

\* an input event has written to the model the text it already held
EqualWriteWitness ==
  /\ step.op = "onInput"
  /\ step.equalWrite
  /\ model = Str(<<"a">>)
  /\ el.value = <<"a">>
  /\ Count(trace, "update:modelValue") = 1


\* the effects of focus acquisition
FocusEffects == {"focusin", "update:focused(true)"}

\* C17: a mousedown on the control whose target is not the <input> emits
\* the mousedown notification first, then acquires focus, then prevents the
\* default action last, and no deferred continuation runs meanwhile (the
\* queue and what the continuations write are untouched); a mousedown whose
\* target is the <input> emits the notification and does nothing else.
MousedownOrder ==
  [][step'.op = "onControlMousedown" =>
       /\ UNCHANGED <<queue, model, el>>
       /\ IF step'.target = "input"
            THEN /\ trace' = <<"mousedown:control">>
                 /\ UNCHANGED <<isFocused, activeElement>>
            ELSE /\ Head(trace') = "mousedown:control"
                 /\ trace'[Len(trace')] = "preventDefault"
                 /\ \A i \in 2..(Len(trace') - 1) : trace'[i] \in FocusEffects
                 /\ isFocused' /\ activeElement'
                 /\ Has(trace', "focusin") <=> ~activeElement
                 /\ Has(trace', "update:focused(true)") <=> ~isFocused]_vars

\* a mousedown on the field has focused the widget while a continuation is pending
MousedownWitness ==
  /\ step.op = "onControlMousedown"
  /\ step.target = "field"
  /\ queue # <<>>
  /\ trace = <<"mousedown:control", "focusin", "update:focused(true)", "preventDefault">>


\* C18: the clear callback is invoked by the clear continuation alone,
\* never by onClear or any other handler; there it is invoked exactly once
\* when one is configured, after the write of null to the model, and not at
\* all when none is configured, the continuation then only writing null.
\* Each onClear schedules one such continuation.
ClearCallbackAfterNull ==
  /\ step.op = "clearTick" =>
       /\ model = Null
       /\ trace = IF props.onClickClear
                    THEN <<"update:modelValue", "onClick:clear">>
                    ELSE <<"update:modelValue">>
  /\ step.op # "clearTick" => ~Has(trace, "onClick:clear")
  /\ step.op = "onClear" =>
       /\ Count(trace, "nextTick") = 1
       /\ queue # <<>>
       /\ queue[Len(queue)] = clearCallback

\* the continuation of a clear with a configured callback has run
ClearCallbackWitness ==
  /\ props.onClickClear
  /\ step.op = "clearTick"
  /\ model = Null
  /\ el.value # <<>>
  /\ trace = <<"update:modelValue", "onClick:clear">>


\* C19: when the trim modifier is off, or the type is none of text, search,
\* password, tel and url, an input event schedules no continuation and the
\* widget never assigns
\* selectionStart or selectionEnd: no caret callback is ever queued or run.
NoCaretRestoreOutsideTrim ==
  ~(props.modelModifiers.trim
      /\ props.type \in {"text", "search", "password", "tel", "url"})
    => /\ \A i \in 1..Len(queue) : queue[i].kind # "caret"
       /\ step.op # "caretTick"
       /\ step.op = "onInput" => ~Has(trace, "nextTick")

\* an input event under trim on a type outside the five: nothing is scheduled
NoCaretRestoreWitness ==
  /\ props.modelModifiers.trim
  /\ props.type = "email"
  /\ step.op = "onInput"
  /\ el.value = <<" ", "a">>
  /\ queue = <<>>
  /\ ~Has(trace, "nextTick")


\* C20: focus acquisition is idempotent. A handler that runs while the
\* Focused State is true does not invoke focus() again; a handler emits the
\* focused(true) notification at most once, and only on a transition from
\* unfocused to focused; the Focused State leaves true only through a blur,
\* so two such transitions are always separated by one; and a clear raises
\* each focus side effect at most once.
FocusAcquiredOnce ==
  [][/\ isFocused => ~Has(trace', "update:focused(true)")
     /\ Count(trace', "update:focused(true)") <= 1
     /\ Has(trace', "update:focused(true)") <=> (~isFocused /\ isFocused')
     /\ (isFocused /\ ~isFocused') => (step'.op = "blur" /\ trace' = <<"update:focused(false)">>)
     /\ step'.op = "onClear" => Count(trace', "focusin") <= 1]_vars

\* a clear on the focused widget: focus is kept and not acquired again
FocusAcquiredOnceWitness ==
  /\ step.op = "onClear"
  /\ isFocused
  /\ activeElement
  /\ trace = <<"stopPropagation", "nextTick">>

=============================================================================
